---- MODULE Spec2Model ----
(***************************************************************************)
(* A model of surge-ping.                                                  *)
(*                                                                         *)
(*   src/src/ping.rs        Pinger over a private raw socket: Cache,       *)
(*                          Pinger::ping, Pinger::recv_reply               *)
(*   src/src/unix.rs        AsyncSocket::recv / AsyncSocket::send_to       *)
(*   src/src/pingsocket.rs  PingSocket: registration map, reply dispatcher *)
(*                          task and its handle                            *)
(*                                                                         *)
(* Spec      the single Pinger of ping.rs: one caller issuing sequential   *)
(*           ping(seq) calls, the send tasks those calls spawn, the        *)
(*           responder and the clock.                                      *)
(* FairSpec  Spec with the fairness the tokio runtime gives the caller.    *)
(* SockSpec  the shared PingSocket of pingsocket.rs: pinger() calls,       *)
(*           dispatcher tasks, delivery channels.                          *)
(* FairSockSpec  SockSpec with the fairness the runtime gives a dispatcher. *)
(* LimitSpec the rate limiter of pingsocket.rs: LimitBasket::shot under    *)
(*           the lock of InnerSocket::send_to, concurrent senders and the  *)
(*           clock.                                                        *)
(***************************************************************************)
EXTENDS Integers, Sequences, FiniteSets, TLC

\* ------------------------------------------------------------------ bounds
\* Number of ping() calls the caller issues in one behaviour.
MaxCalls == 2
\* Last instant of the discrete clock.
MaxTime == 3
\* Number of pinger() calls made on the shared socket in one behaviour.
MaxPingers == 2
\* Number of datagrams the shared socket receives in one behaviour.
MaxDgrams == 3
\* Capacity of a delivery channel: channel(100) of PingSocket::pinger, scaled
\* down so that a full channel is within reach of MaxDgrams datagrams.
ChanCap == 2
\* Number of tasks calling send_to on one socket concurrently.
NSenders == 2
\* Number of send_to calls made on the socket in one behaviour.
MaxSends == 4
\* Last instant of the limiter's clock.
MaxClock == 5

\* ------------------------------------------------------- program constants
\* Pinger::new: timeout: Duration::from_secs(2), in clock ticks.
Timeout == 2
\* Durations given to Pinger::timeout, in clock ticks.
Timeouts == {1, 2}
\* Pinger::new: size: 56.
DefaultSize == 56
\* The payload sizes size() is called with: the default and one too large for
\* a datagram.
Sizes == {56, 70000}
\* The echo header, and the largest message a datagram carries.
EchoHeader == 8
MaxDatagram == 65535
\* The limiter's clock ticks every 500 microseconds.
TicksPerSec == 2000
\* LimitBasket::new: minwait_time: Duration::from_millis(1), in those ticks.
MinWait == 2
\* const DEFAULT_LIMIT_PPS: usize = 10000.
DEFAULT_LIMIT_PPS == 10000
\* Values of send_limit_pps given to set_send_limit_pps, in packets a second.
Limits == {1000, 1500, 2000}

\* Values a u16 identifier / sequence number is drawn from.
Idents == {1, 2}
Seqs == {0, 1}
\* Addresses on the network; Dest is the Pinger's destination.
Addrs == {"A", "B"}
Dest == "A"

VARIABLES
    \* ---- ping.rs
    now,      \* Instant::now()
    ident,    \* Pinger.ident
    size,     \* Pinger.size, the payload size in bytes
    timeout,  \* Pinger.timeout, in clock ticks
    cache,    \* Pinger.cache: Token -> Instant
    call,     \* the caller's position in Pinger::ping / recv_reply
    result,   \* what the last ping() call returned
    tasks,    \* the send tasks spawned by ping(), by call number
    \* ---- pingsocket.rs
    pmap,       \* PingSocket.pmap: IpAddr -> Sender, as the channel's number
    recv_task,  \* PingSocket.recv_task: the dispatcher's handle, 0 for None
    chans,      \* the channels made by pinger(), in the order made
    disp,       \* the dispatcher tasks spawned by run_task, in the order spawned
    ndgram,     \* datagrams read from the shared socket so far
    sockFailed, \* whether recv_from has failed on the shared socket
    \* ---- pingsocket.rs, the rate limiter
    clock,      \* Instant::now(), in ticks
    limit_pps,  \* LimitBasket.limit_pps, 0 while the socket is not built
    last,       \* LimitBasket.last: <<>> for None, <<t>> for Some(t)
    cnt,        \* LimitBasket.cnt
    lock,       \* InnerSocket.limit: the sender holding the Mutex, 0 if free
    senders,    \* the tasks calling send_to: position, wake-up time, packet
    passed,     \* the instants at which a send_to call left the limiter
    sent        \* the packets handed to socket.send_to, in that order

pingVars == <<now, ident, size, timeout, cache, call, result, tasks>>
sockVars == <<pmap, recv_task, chans, disp, ndgram, sockFailed>>
limVars == <<clock, limit_pps, last, cnt, lock, senders, passed, sent>>
vars == <<now, ident, size, timeout, cache, call, result, tasks,
          pmap, recv_task, chans, disp, ndgram, sockFailed,
          clock, limit_pps, last, cnt, lock, senders, passed, sent>>

\* ------------------------------------------------------------------ Cache
Token(i, s) == <<i, s>>

\* Cache::insert: HashMap::insert, overwriting an entry of the same token.
CacheInsert(c, i, s, t) ==
    [k \in (DOMAIN c) \cup {Token(i, s)} |-> IF k = Token(i, s) THEN t ELSE c[k]]

\* Cache::remove: HashMap::remove; CacheHas tells whether it returns Some.
CacheRemove(c, i, s) == [k \in (DOMAIN c) \ {Token(i, s)} |-> c[k]]
CacheHas(c, i, s) == Token(i, s) \in DOMAIN c

EmptyCache == [k \in {} |-> 0]

\* ---------------------------------------------------------------- packets
\* A datagram as the raw socket hands it over. kind is what the decoder makes
\* of its bytes: an echo reply, an echo request (looped back), a bad checksum,
\* a truncated header, or another ICMP type.
Kinds == {"reply", "request", "badsum", "short", "othertype"}
Pkt(k, a, i, s) == [kind |-> k, src |-> a, ident |-> i, seq |-> s]
NoPkt == Pkt("none", "-", 0, 0)

\* Icmpv4Packet::decode: Ok for an echo reply, EchoRequestPacket for an echo
\* request, another error for anything malformed or of an unsupported type.
Decode(p) ==
    CASE p.kind = "reply"   -> "Ok"
      [] p.kind = "request" -> "EchoRequestPacket"
      [] p.kind = "badsum"  -> "ChecksumError"
      [] p.kind = "short"   -> "IncorrectBufferSize"
      [] OTHER              -> "UnsupportedType"

\* IcmpPacket::check_reply_packet(destination, seq_cnt, identifier)
CheckReplyPacket(p, dst, s, i) == p.src = dst /\ p.seq = s /\ p.ident = i

\* Instant - Instant: Duration, saturating at zero (std since 1.60).
InstantSub(a, b) == IF a >= b THEN a - b ELSE 0

\* The echo reply a responder at Dest returns for the request of token (i, s).
ReplyFor(i, s) == Pkt("reply", Dest, i, s)

\* What else reaches the raw socket: replies from other hosts or to other
\* identifiers, and datagrams that do not decode to a reply.
AllPkts ==
    {Pkt(k, a, i, s) : k \in Kinds, a \in Addrs, i \in Idents \cup {0}, s \in Seqs}
NoisePkts ==
    {Pkt("reply", a, ident, s) : a \in Addrs \ {Dest}, s \in Seqs}
    \cup {Pkt("reply", Dest, i, s) : i \in Idents \ {ident}, s \in Seqs}
    \cup {Pkt(k, Dest, 0, 0) : k \in Kinds \ {"reply"}}

\* ------------------------------------------------------------------ state
NoTask == [ident |-> 0, seq |-> 0, st |-> "none", net |-> "none"]
IdleCall ==
    [id |-> 0, seq |-> 0, pc |-> "idle", start |-> 0, curr |-> 0,
     pkt |-> NoPkt, of |-> 0, sendFailed |-> FALSE]
NoResult ==
    [kind |-> "none", seq |-> 0, rtt |-> 0, pkt |-> NoPkt, err |-> ""]

PingInit ==
    /\ now = 0
    /\ ident \in Idents
    /\ size = DefaultSize
    /\ timeout = Timeout
    /\ cache = EmptyCache
    /\ call = IdleCall
    /\ result = NoResult
    /\ tasks = [n \in 1..MaxCalls |-> NoTask]


InCall == call.pc \in {"waiting", "got"}
Deadline == call.start + timeout

\* ----------------------------------------------------------- Pinger::ident
\* ident(&mut self, val): self.ident = val. The exclusive borrow rules out a
\* ping() in progress on this Pinger; send tasks of earlier calls may still
\* run.
SetIdent(i) ==
    /\ call.pc \in {"idle", "done"}
    /\ ident' = i
    /\ UNCHANGED <<now, size, timeout, cache, call, result, tasks>>
    /\ UNCHANGED <<sockVars, limVars>>

\* --------------------------------------------------------- Pinger::timeout
\* timeout(&mut self, timeout): self.timeout = timeout, between ping() calls
\* like ident().
SetTimeout(d) ==
    /\ call.pc \in {"idle", "done"}
    /\ timeout' = d
    /\ UNCHANGED <<now, ident, size, cache, call, result, tasks>>
    /\ UNCHANGED <<sockVars, limVars>>

\* ------------------------------------------------------------ Pinger::size
\* size(&mut self, size): self.size = size, between ping() calls like ident().
SetSize(n) ==
    /\ call.pc \in {"idle", "done"}
    /\ size' = n
    /\ UNCHANGED <<now, ident, timeout, cache, call, result, tasks>>
    /\ UNCHANGED <<sockVars, limVars>>

\* make_icmpv4_echo_packet(ident, seq, size) returns Ok: the message of header
\* and payload fits a datagram.
MakeEchoPacketOk(n) == EchoHeader + n <= MaxDatagram

\* ------------------------------------------------------------ Pinger::ping
\* ping(seq_cnt) up to its first suspension. The packet is built for
\* (self.ident, seq_cnt, self.size); when the encoder fails, the ? returns
\* Err(IncorrectBufferSize) at once: no task is spawned, no timer starts and
\* the cache is not touched. Otherwise the send task is spawned with the
\* packet and its own copy of the identifier (let ident = self.ident), and
\* timeout(self.timeout, self.recv_reply(seq_cnt)) starts.
Ping(s) ==
    /\ call.pc \in {"idle", "done"}
    /\ call.id < MaxCalls
    /\ IF MakeEchoPacketOk(size)
       THEN /\ now + timeout <= MaxTime
            /\ call' = [IdleCall EXCEPT !.id = call.id + 1, !.seq = s,
                                        !.pc = "waiting", !.start = now]
            /\ tasks' = [tasks EXCEPT ![call.id + 1] =
                            [ident |-> ident, seq |-> s, st |-> "sending",
                             net |-> "none"]]
            /\ result' = NoResult
       ELSE /\ call' = [IdleCall EXCEPT !.id = call.id + 1, !.seq = s,
                                        !.pc = "done"]
            /\ result' = [kind |-> "Errored", seq |-> s, rtt |-> 0,
                          pkt |-> NoPkt, err |-> "IncorrectBufferSize"]
            /\ tasks' = tasks
    /\ UNCHANGED <<now, ident, size, timeout, cache>>
    /\ UNCHANGED <<sockVars, limVars>>

\* The spawned task: sender.send_to(..).await returns Ok. The request is on
\* the wire and the host at Dest answers it: the reply is under way to the raw
\* socket, which may hand it over at any later time, or never.
SendOk(n) ==
    /\ tasks[n].st = "sending"
    /\ tasks' = [tasks EXCEPT ![n].st = "sent", ![n].net = "reply"]
    /\ UNCHANGED <<now, ident, size, timeout, cache, call, result>>
    /\ UNCHANGED <<sockVars, limVars>>

\* The spawned task: send_to returns Err; expect() panics and the task ends
\* without touching the cache. Nobody awaits its JoinHandle.
SendFail(n) ==
    /\ tasks[n].st = "sending"
    /\ tasks' = [tasks EXCEPT ![n].st = "panicked"]
    /\ call' = IF n = call.id /\ InCall
                 THEN [call EXCEPT !.sendFailed = TRUE] ELSE call
    /\ UNCHANGED <<now, ident, size, timeout, cache, result>>
    /\ UNCHANGED <<sockVars, limVars>>

\* The spawned task, after the send: cache.insert(ident, seq_cnt, Instant::now()),
\* with the identifier the task was spawned with.
SendInsert(n) ==
    /\ tasks[n].st = "sent"
    /\ cache' = CacheInsert(cache, tasks[n].ident, tasks[n].seq, now)
    /\ tasks' = [tasks EXCEPT ![n].st = "done"]
    /\ UNCHANGED <<now, ident, size, timeout, call, result>>
    /\ UNCHANGED <<sockVars, limVars>>

\* ------------------------------------------------------ Pinger::recv_reply
\* The reply test of recv_reply:
\*   packet.check_reply_packet(self.destination, seq_cnt, self.ident)
\*   and then cache.remove(self.ident, seq_cnt) is Some
ReplyAcceptedNoCheck(p, s) == CacheHas(cache, ident, s)
ReplyAccepted(p, s) ==
    /\ CheckReplyPacket(p, Dest, s, ident)
    /\ CacheHas(cache, ident, s)

\* ping() returns to its caller.
Return(kind, err, p, curr, ins) ==
    /\ call' = [call EXCEPT !.pc = "done", !.curr = 0, !.pkt = NoPkt, !.of = 0]
    /\ result' = [kind |-> kind, seq |-> call.seq,
                  rtt |-> IF kind = "Matched" THEN InstantSub(curr, ins) ELSE 0,
                  pkt |-> p, err |-> err]

\* Back to the top of recv_reply's loop.
Continue ==
    /\ call' = [call EXCEPT !.pc = "waiting", !.curr = 0, !.pkt = NoPkt, !.of = 0]
    /\ UNCHANGED <<cache, result>>

\* recv_reply's match on the decoded packet p received at curr, and what
\* ping() does with an Err.
MatchPacket(p, curr) ==
    LET d == Decode(p)
    IN  IF d = "Ok"
        THEN IF ReplyAccepted(p, call.seq)
             THEN \* return Ok((packet, curr - ins))
                  /\ Return("Matched", "", p, curr, cache[Token(ident, call.seq)])
                  /\ cache' = CacheRemove(cache, ident, call.seq)
             ELSE Continue
        ELSE IF d = "EchoRequestPacket"
        THEN Continue
        ELSE \* Err(e) => return Err(e); ping: map_err removes the record
             /\ Return("Errored", d, NoPkt, 0, 0)
             /\ cache' = CacheRemove(cache, ident, call.seq)

\* self.socket.recv(&mut buffer).await? returns the echo reply to the request
\* of send task n; curr = Instant::now().
RecvReplyOf(n) ==
    /\ call.pc = "waiting"
    /\ tasks[n].net = "reply"
    /\ tasks' = [tasks EXCEPT ![n].net = "none"]
    /\ call' = [call EXCEPT !.pc = "got", !.curr = now,
                            !.pkt = ReplyFor(tasks[n].ident, tasks[n].seq), !.of = n]
    /\ UNCHANGED <<now, ident, size, timeout, cache, result>>
    /\ UNCHANGED <<sockVars, limVars>>

\* ... and the rest of that loop iteration. The caller's task and the send
\* tasks run on different worker threads, so a send task may act in between.
RecvReplyStep ==
    /\ call.pc = "got"
    /\ MatchPacket(call.pkt, call.curr)
    /\ UNCHANGED <<now, ident, size, timeout, tasks>>
    /\ UNCHANGED <<sockVars, limVars>>

\* One loop iteration for any other datagram. Nothing a send task does
\* between the recv and the match changes what the match does with a datagram
\* that is no reply to this Pinger, so the iteration is one step.
RecvNoise(p) ==
    /\ call.pc = "waiting"
    /\ p \in NoisePkts
    /\ MatchPacket(p, now)
    /\ UNCHANGED <<now, ident, size, timeout, tasks>>
    /\ UNCHANGED <<sockVars, limVars>>

\* self.socket.recv(..).await? fails: recv_reply returns the io error and
\* ping's map_err removes the record.
RecvError ==
    /\ call.pc = "waiting"
    /\ Return("Errored", "IOError", NoPkt, 0, 0)
    /\ cache' = CacheRemove(cache, ident, call.seq)
    /\ UNCHANGED <<now, ident, size, timeout, tasks>>
    /\ UNCHANGED <<sockVars, limVars>>

\* timeout(self.timeout, ..) elapses while recv_reply is suspended in recv:
\* the record is removed and Timeout { seq } returned.
PingTimeoutAfterSend ==
    /\ call.pc = "waiting"
    /\ now >= Deadline
    /\ tasks[call.id].st \in {"done", "panicked"}
    /\ Return("TimedOut", "Timeout", NoPkt, 0, 0)
    /\ cache' = CacheRemove(cache, ident, call.seq)
    /\ UNCHANGED <<now, ident, size, timeout, tasks>>
    /\ UNCHANGED <<sockVars, limVars>>
PingTimeout ==
    /\ call.pc = "waiting"
    /\ now >= Deadline
    /\ Return("TimedOut", "Timeout", NoPkt, 0, 0)
    /\ cache' = CacheRemove(cache, ident, call.seq)
    /\ UNCHANGED <<now, ident, size, timeout, tasks>>
    /\ UNCHANGED <<sockVars, limVars>>

\* Time passes. Nothing in the code holds the clock back: the timer of an
\* outstanding call is looked at only when the caller's task is polled, so the
\* clock can run past the deadline while the call is still in progress.
Tick ==
    /\ now < MaxTime
    /\ now' = now + 1
    /\ UNCHANGED <<ident, size, timeout, cache, call, result, tasks>>
    /\ UNCHANGED <<sockVars, limVars>>

\* ============================================================ PingSocket
\* A datagram read by the dispatcher: its source address and its place in the
\* order of arrival (standing for the bytes and the arrival Instant).
Dgram(a, k) == [src |-> a, sn |-> k]
NoDgram == Dgram("-", 0)

\* channel(100): the queue, the Receiver (held by the Pinger), and whether the
\* pinger() call that made the channel has returned its Pinger.
NewChan(a) == [addr |-> a, q |-> <<>>, rx |-> "alive", ret |-> FALSE]

SockInit ==
    /\ pmap = [a \in Addrs |-> 0]
    /\ recv_task = 0
    /\ chans = <<>>
    /\ disp = <<>>
    /\ ndgram = 0
    /\ sockFailed = FALSE

\* InnerSocket::new: Mutex::new(LimitBasket::new(..)), last: None, cnt: 0; no
\* task has called send_to.
IdleSender == [pc |-> "idle", wake |-> 0, id |-> 0]
LimInit ==
    /\ clock = 0
    /\ limit_pps = 0
    /\ last = <<>>
    /\ cnt = 0
    /\ lock = 0
    /\ senders = [s \in 1..NSenders |-> IdleSender]
    /\ passed = <<>>
    /\ sent = <<>>

Init == PingInit /\ SockInit /\ LimInit

\* BTreeMap: the registered addresses, and len().
Registered(m) == {a \in Addrs : m[a] # 0}
\* The dispatcher tasks that have not finished.
Alive == {d \in 1..Len(disp) : disp[d].pc # "dead"}

\* BTreeMap::insert(addr, tx): the Sender stored under addr, in place of any
\* Sender already there.
MapInsertIfAbsent(m, a, c) == IF m[a] # 0 THEN m ELSE [m EXCEPT ![a] = c]
MapInsert(m, a, c) == [m EXCEPT ![a] = c]
\* BTreeMap::get(&addr.ip()): the Sender registered under the source, 0 if none.
MapGetAny(m, a) ==
    IF Registered(m) = {} THEN 0 ELSE m[CHOOSE b \in Addrs : m[b] # 0]
MapGet(m, a) == m[a]

\* PingSocket::pinger, first half: channel(100), then
\* self.pmap.lock().await.insert(addr, tx), replacing a Sender already there.
PingerInsert(a) ==
    /\ Len(chans) < MaxPingers
    /\ chans' = Append(chans, NewChan(a))
    /\ pmap' = MapInsert(pmap, a, Len(chans) + 1)
    /\ UNCHANGED <<recv_task, disp, ndgram, sockFailed>>
    /\ UNCHANGED <<pingVars, limVars>>

\* PingSocket::run_task: tokio::task::spawn of the dispatcher loop.
RunTask == Append(disp, [pc |-> "recv", dg |-> NoDgram])

\* PingSocket::check_task, under the recv_task lock: return if the handle is
\* Some, else spawn the dispatcher and store its handle.
CheckTaskNoGuard ==
    /\ disp' = RunTask
    /\ recv_task' = Len(disp) + 1
CheckTask ==
    IF recv_task # 0
    THEN UNCHANGED <<recv_task, disp>>
    ELSE /\ disp' = RunTask
         /\ recv_task' = Len(disp) + 1

\* PingSocket::pinger, second half: self.check_task().await, then the Pinger
\* holding the Receiver is returned.
PingerCheckTask(c) ==
    /\ c \in 1..Len(chans)
    /\ ~chans[c].ret
    /\ chans[c].rx = "alive"
    /\ CheckTask
    /\ chans' = [chans EXCEPT ![c].ret = TRUE]
    /\ UNCHANGED <<pmap, ndgram, sockFailed>>
    /\ UNCHANGED <<pingVars, limVars>>

\* PingSocket::pinger, dropped by its caller (a timeout or select! around it,
\* an aborted task) while it awaits check_task: rx is a local of the future
\* and is dropped with it, the Sender stays in the map, check_task does not
\* run and no Pinger is returned.
PingerCancel(c) ==
    /\ c \in 1..Len(chans)
    /\ ~chans[c].ret
    /\ chans[c].rx = "alive"
    /\ chans' = [chans EXCEPT ![c].rx = "dropped", ![c].q = <<>>]
    /\ UNCHANGED <<pmap, recv_task, disp, ndgram, sockFailed>>
    /\ UNCHANGED <<pingVars, limVars>>

\* The dispatcher: inner.recv_from(&mut buffer).await returns Ok((sz, from_addr)).
DispRecv(d, a) ==
    /\ d \in 1..Len(disp)
    /\ disp[d].pc = "recv"
    /\ ndgram < MaxDgrams
    /\ ndgram' = ndgram + 1
    /\ disp' = [disp EXCEPT ![d] = [pc |-> "route", dg |-> Dgram(a, ndgram + 1)]]
    /\ UNCHANGED <<pmap, recv_task, chans, sockFailed>>
    /\ UNCHANGED <<pingVars, limVars>>

\* The dispatcher: recv_from returns Err, which ends the while-let loop.
DispRecvErr(d) ==
    /\ d \in 1..Len(disp)
    /\ disp[d].pc = "recv"
    /\ disp' = [disp EXCEPT ![d].pc = "exit"]
    /\ sockFailed' = TRUE
    /\ UNCHANGED <<pmap, recv_task, chans, ndgram>>
    /\ UNCHANGED <<pingVars, limVars>>

\* Sender::try_send is Err when the channel is full or its Receiver is gone.
TrySendFailsFullOnly(ch) == Len(ch.q) >= ChanCap
TrySendFailsClosedOnly(ch) == ch.rx # "alive"
TrySendFails(ch) == ch.rx # "alive" \/ Len(ch.q) >= ChanCap

\* Sender::try_send on a channel with room and a Receiver: the message goes to
\* the back of the queue.
TrySendFront(q, dg) == <<dg>> \o q
TrySend(q, dg) == Append(q, dg)
\* After pmapguard.remove: break if pmapguard.len() < 1, else loop again.
AfterRemoveBreak(m) == "exit"
AfterRemove(m) == IF Registered(m) = {} THEN "exit" ELSE "recv"

\* The dispatcher, under the pmap lock: look the source address up; if it is
\* registered try_send the datagram; if that fails remove the registration
\* and leave the loop when the map has become empty.
DispRoute(d) ==
    /\ d \in 1..Len(disp)
    /\ disp[d].pc = "route"
    /\ LET dg == disp[d].dg
           c == MapGet(pmap, dg.src)
       IN  IF c = 0
           THEN \* None => continue
                /\ disp' = [disp EXCEPT ![d] = [pc |-> "recv", dg |-> NoDgram]]
                /\ UNCHANGED <<pmap, chans>>
           ELSE IF TrySendFails(chans[c])
           THEN /\ pmap' = [pmap EXCEPT ![dg.src] = 0]
                /\ disp' = [disp EXCEPT ![d] =
                              [pc |-> AfterRemove(pmap'), dg |-> NoDgram]]
                /\ UNCHANGED chans
           ELSE /\ chans' = [chans EXCEPT ![c].q = TrySend(@, dg)]
                /\ disp' = [disp EXCEPT ![d] = [pc |-> "recv", dg |-> NoDgram]]
                /\ UNCHANGED pmap
    /\ UNCHANGED <<recv_task, ndgram, sockFailed>>
    /\ UNCHANGED <<pingVars, limVars>>

\* The dispatcher, after its loop: *recv_task.lock().await = None, and the
\* task ends.
DispClear(d) ==
    /\ d \in 1..Len(disp)
    /\ disp[d].pc = "exit"
    /\ recv_task' = 0
    /\ disp' = [disp EXCEPT ![d].pc = "dead"]
    /\ UNCHANGED <<pmap, chans, ndgram, sockFailed>>
    /\ UNCHANGED <<pingVars, limVars>>

\* The Pinger of channel c takes the next message off its Receiver.
ChanRecv(c) ==
    /\ c \in 1..Len(chans)
    /\ chans[c].ret
    /\ chans[c].rx = "alive"
    /\ chans[c].q # <<>>
    /\ chans' = [chans EXCEPT ![c].q = Tail(@)]
    /\ UNCHANGED <<pmap, recv_task, disp, ndgram, sockFailed>>
    /\ UNCHANGED <<pingVars, limVars>>

\* The Pinger of channel c is dropped, and its Receiver with it.
DropPinger(c) ==
    /\ c \in 1..Len(chans)
    /\ chans[c].ret
    /\ chans[c].rx = "alive"
    /\ chans' = [chans EXCEPT ![c].rx = "dropped", ![c].q = <<>>]
    /\ UNCHANGED <<pmap, recv_task, disp, ndgram, sockFailed>>
    /\ UNCHANGED <<pingVars, limVars>>

SockNext ==
    \/ \E a \in Addrs : PingerInsert(a)
    \/ \E c \in 1..MaxPingers : PingerCheckTask(c)
    \/ \E c \in 1..MaxPingers : PingerCancel(c)
    \/ \E d \in 1..MaxPingers, a \in Addrs : DispRecv(d, a)
    \/ \E d \in 1..MaxPingers : DispRecvErr(d)
    \/ \E d \in 1..MaxPingers : DispRoute(d)
    \/ \E d \in 1..MaxPingers : DispClear(d)
    \/ \E c \in 1..MaxPingers : ChanRecv(c)
    \/ \E c \in 1..MaxPingers : DropPinger(c)

\* The Pinger of ping.rs takes no step here; its identifier is held at one value.
InitOne == Init /\ ident = 1
SockSpec == InitOne /\ [][SockNext]_vars

\* A dispatcher that holds a datagram, or has left its loop, takes its next
\* step: the runtime polls a spawned task that is ready and tokio's Mutex
\* hands the lock to every waiter. Nothing is assumed of the network or of the
\* callers.
FairSockSpec ==
    /\ InitOne
    /\ [][SockNext]_vars
    /\ \A d \in 1..MaxPingers : WF_vars(DispRoute(d)) /\ WF_vars(DispClear(d))

\* ------------------------------------------------------------ rate limiter
\* (nw - l).as_secs_f64() * limit_pps, truncated and floored at zero.
SubPpsRoundUp(l, nw, lim) ==
    (InstantSub(nw, l) * lim + TicksPerSec - 1) \div TicksPerSec
SubPps(l, nw, lim) == (InstantSub(nw, l) * lim) \div TicksPerSec
\* if self.cnt <= sub_pps { self.cnt = 0 } else { self.cnt -= sub_pps }
Remaining(c, sub) == IF c <= sub THEN 0 ELSE c - sub
\* wd >= self.minwait_time, for wd = cnt / limit_pps seconds.
WaitAboveFloor(c, lim) == c * TicksPerSec > MinWait * lim
WaitMeetsFloor(c, lim) == c * TicksPerSec >= MinWait * lim
\* tokio::time::sleep(wd) returns no earlier than wd after it was called: the
\* first tick at which it can return.
SleepTicks(c, lim) == (c * TicksPerSec + lim - 1) \div lim

\* The send_to calls begun so far.
Started ==
    Len(passed)
        + Cardinality({s \in 1..NSenders : senders[s].pc \in {"lock", "shot", "sleep"}})

\* PingSocketBuilder::set_send_limit_pps and build: the socket and its limiter
\* are made with the configured limit.
Build(L) ==
    /\ limit_pps = 0
    /\ limit_pps' = L
    /\ UNCHANGED <<clock, last, cnt, lock, senders, passed, sent>>
    /\ UNCHANGED <<pingVars, sockVars>>

\* A task calls InnerSocket::send_to and asks for the limiter's lock.
SendTo(s) ==
    /\ limit_pps # 0
    /\ senders[s].pc = "idle"
    /\ Started < MaxSends
    /\ senders' = [senders EXCEPT ![s].pc = "lock"]
    /\ UNCHANGED <<clock, limit_pps, last, cnt, lock, passed, sent>>
    /\ UNCHANGED <<pingVars, sockVars>>

\* self.limit.lock().await returns the guard.
AcquireNoWait(s) ==
    /\ senders[s].pc = "lock"
    /\ lock' = s
    /\ senders' = [senders EXCEPT ![s].pc = "shot"]
    /\ UNCHANGED <<clock, limit_pps, last, cnt, passed, sent>>
    /\ UNCHANGED <<pingVars, sockVars>>
Acquire(s) ==
    /\ senders[s].pc = "lock"
    /\ lock = 0
    /\ lock' = s
    /\ senders' = [senders EXCEPT ![s].pc = "shot"]
    /\ UNCHANGED <<clock, limit_pps, last, cnt, passed, sent>>
    /\ UNCHANGED <<pingVars, sockVars>>

\* shot() returns and the guard is dropped at the end of its block: the call
\* has left the limiter and goes on to socket.send_to.
Pass(s) ==
    /\ lock' = 0
    /\ passed' = Append(passed, clock)
    /\ senders' = [senders EXCEPT ![s] =
                     [pc |-> "send", wake |-> 0, id |-> Len(passed) + 1]]

\* LimitBasket::shot up to its sleep: the first call records the time and
\* returns; a later one takes the allowance of the elapsed time off the count
\* and either goes to sleep, still holding the lock, or counts itself, records
\* the time and returns.
Shot(s) ==
    /\ senders[s].pc = "shot"
    /\ IF last = <<>>
       THEN /\ last' = <<clock>>
            /\ cnt' = 1
            /\ Pass(s)
       ELSE LET rem == Remaining(cnt, SubPps(last[1], clock, limit_pps))
            IN  IF rem > 0 /\ WaitMeetsFloor(rem, limit_pps)
                THEN /\ cnt' = rem
                     /\ senders' = [senders EXCEPT ![s].pc = "sleep",
                                       ![s].wake = clock + SleepTicks(rem, limit_pps)]
                     /\ UNCHANGED <<last, lock, passed>>
                ELSE /\ cnt' = rem + 1
                     /\ last' = <<clock>>
                     /\ Pass(s)
    /\ UNCHANGED <<clock, limit_pps, sent>>
    /\ UNCHANGED <<pingVars, sockVars>>

\* LimitBasket::shot after its sleep: self.cnt = 0; nw = Instant::now(); then
\* self.cnt += 1; self.last = Some(nw).
WakeNoReset(s) ==
    /\ senders[s].pc = "sleep"
    /\ clock >= senders[s].wake
    /\ cnt' = cnt + 1
    /\ last' = <<clock>>
    /\ Pass(s)
    /\ UNCHANGED <<clock, limit_pps, sent>>
    /\ UNCHANGED <<pingVars, sockVars>>
Wake(s) ==
    /\ senders[s].pc = "sleep"
    /\ clock >= senders[s].wake
    /\ cnt' = 0 + 1
    /\ last' = <<clock>>
    /\ Pass(s)
    /\ UNCHANGED <<clock, limit_pps, sent>>
    /\ UNCHANGED <<pingVars, sockVars>>

\* self.socket.send_to(buf, target).await, with the lock released.
SockSend(s) ==
    /\ senders[s].pc = "send"
    /\ sent' = Append(sent, senders[s].id)
    /\ senders' = [senders EXCEPT ![s] = IdleSender]
    /\ UNCHANGED <<clock, limit_pps, last, cnt, lock, passed>>
    /\ UNCHANGED <<pingVars, sockVars>>

\* Time passes.
LimTick ==
    /\ clock < MaxClock
    /\ clock' = clock + 1
    /\ UNCHANGED <<limit_pps, last, cnt, lock, senders, passed, sent>>
    /\ UNCHANGED <<pingVars, sockVars>>

LimNext ==
    \/ \E L \in Limits : Build(L)
    \/ \E s \in 1..NSenders : SendTo(s)
    \/ \E s \in 1..NSenders : Acquire(s)
    \/ \E s \in 1..NSenders : Shot(s)
    \/ \E s \in 1..NSenders : Wake(s)
    \/ \E s \in 1..NSenders : SockSend(s)
    \/ LimTick

\* Neither the Pinger of ping.rs nor the dispatcher takes a step here.
LimitSpec == InitOne /\ [][LimNext]_vars

Next ==
    \/ \E i \in Idents : SetIdent(i)
    \/ \E d \in Timeouts : SetTimeout(d)
    \/ \E n \in Sizes : SetSize(n)
    \/ \E s \in Seqs : Ping(s)
    \/ \E n \in 1..MaxCalls : SendOk(n)
    \/ \E n \in 1..MaxCalls : SendFail(n)
    \/ \E n \in 1..MaxCalls : SendInsert(n)
    \/ \E n \in 1..MaxCalls : RecvReplyOf(n)
    \/ \E p \in AllPkts : RecvNoise(p)
    \/ RecvReplyStep
    \/ RecvError
    \/ PingTimeout
    \/ Tick

Spec == Init /\ [][Next]_vars

\* The caller's task is polled when it has a datagram to look at and when its
\* timer has fired, and time passes. Nothing is assumed of the send tasks: a
\* send may stay suspended for ever. The behaviours for the two identifiers
\* differ by the renaming of one into the other; one is kept.
FairSpec ==
    /\ InitOne
    /\ [][Next]_vars
    /\ WF_vars(RecvReplyStep)
    /\ WF_vars(PingTimeout)
    /\ WF_vars(Tick)

\* ------------------------------------------------------------------ claims
\* The send task of the call in progress.
OwnTask == tasks[call.id]
\* The step in which ping() returns.
Returns == call'.pc = "done" /\ (call.pc # "done" \/ call'.id # call.id)
\* The step in which ping() is entered.
Enters == call'.id # call.id

\* C1: in every ping(seq) call the record for (ident, seq) is in the cache
\* before the request is handed to send_to, so the reply to that request is
\* never received while the record is missing.
C1_RecordBeforeSend ==
    (call.pc = "got" /\ call.of = call.id) => CacheHas(cache, ident, call.seq)

\* C2: a call that timed out returned Timeout { seq } with its own seq, and
\* from its return until the next ping the cache holds no record for
\* (ident, seq).
C2_TimeoutLeavesNoRecord ==
    (call.pc = "done" /\ result.kind = "TimedOut") =>
        /\ result.seq = call.seq
        /\ ~CacheHas(cache, ident, call.seq)

\* C3: ping(seq) returns success only for an echo reply from the Pinger's
\* destination carrying seq and the Pinger's ident, and as it returns success
\* the record for (ident, seq) is gone from the cache.
C3_SuccessOnlyForMatch ==
    [][(Returns /\ result'.kind = "Matched") =>
          /\ result'.pkt.kind = "reply"
          /\ result'.pkt.src = Dest
          /\ result'.pkt.seq = call.seq
          /\ result'.pkt.ident = ident
          /\ result'.seq = call.seq
          /\ ~CacheHas(cache', ident, call.seq)]_vars

C3_Witness ==
    /\ call.pc = "done"
    /\ result.kind = "Matched"
    /\ result.pkt = ReplyFor(ident, call.seq)

\* C4: a datagram that does not match the waiting call, or is malformed, is
\* dropped and the call keeps waiting: receiving it never makes ping() return.
C4_NoiseDiscarded ==
    [][\A p \in NoisePkts :
          (call.pc = "waiting" /\ MatchPacket(p, now)) =>
              (call'.pc = "waiting" /\ result' = result)]_vars

\* C5: a call whose send_to failed returns an error: neither success nor
\* Timeout.
C5_FailedSendIsFatal ==
    (call.pc = "done" /\ call.sendFailed) => result.kind = "Errored"

\* C6: as a ping(seq) call starts, the cache holds no record for (ident, seq)
\* left by an earlier call.
C6_NoRecordAtStart ==
    [][Enters => ~CacheHas(cache, ident, call'.seq)]_vars

\* C7: every ping call ends, as Matched, TimedOut or Errored, by the time its
\* timeout has run out, whatever arrives and whether or not its send completes.
C7_PingTerminates ==
    /\ InCall ~> (call.pc = "done")
    /\ [](call.pc = "done" => result.kind \in {"Matched", "TimedOut", "Errored"})
    /\ [](InCall => now <= Deadline)

\* C7, as the code has it: every ping call ends, as Matched, TimedOut or
\* Errored, whatever arrives and whether or not its send completes; it does
\* not time out before its timeout has run. It returns when the caller is
\* next polled, and the clock may have passed the deadline by then.
C7_PingTerminatesWhenPolled ==
    /\ InCall ~> (call.pc = "done")
    /\ [](call.pc = "done" => result.kind \in {"Matched", "TimedOut", "Errored"})
    /\ [][(Returns /\ result'.kind = "TimedOut") => now >= Deadline]_vars

\* A call has timed out, its send still suspended.
C7_Witness ==
    /\ call.pc = "done"
    /\ result.kind = "TimedOut"
    /\ OwnTask.st = "sending"
    /\ now >= call.start + timeout

\* C8: the round-trip time of a success is the receive timestamp minus the
\* send timestamp of the record, the send timestamp is not later than the
\* receive timestamp, and the round-trip time stays within the timeout.
C8_RttFromRecord ==
    [][(Returns /\ result'.kind = "Matched") =>
          LET ins == cache[Token(ident, call.seq)]
              curr == IF call.pc = "got" THEN call.curr ELSE now
          IN  /\ ins <= curr
              /\ result'.rtt = curr - ins
              /\ result'.rtt <= timeout]_vars

\* C9: at most one dispatcher task of a shared PingSocket is alive at any
\* time, however pinger() calls interleave with a dispatcher that is starting,
\* running, or ending and clearing its handle.
C9_OneDispatcher == Cardinality(Alive) <= 1

\* One dispatcher has ended and cleared the handle, and a later check_task
\* has started the next, which is the one the handle names.
C9_Witness ==
    /\ Cardinality(Alive) = 1
    /\ \E d \in 1..Len(disp) : disp[d].pc = "dead"
    /\ recv_task \in Alive
    /\ \A c \in 1..Len(chans) : chans[c].ret
    /\ Len(chans) >= 2

\* C10: once pinger(addr) has returned, and for as long as the registration
\* it made is in the map, a dispatcher task is alive on the socket (here: on
\* a socket whose recv_from has not failed).
C10_RegisteredIsServed ==
    \A a \in Addrs :
        (pmap[a] # 0 /\ chans[pmap[a]].ret /\ ~sockFailed) => Alive # {}

\* The only registration left is one whose Receiver has been dropped, and a
\* dispatcher is in its loop on a socket that has not failed.
LastDropped ==
    /\ \E a \in Addrs : Registered(pmap) = {a} /\ chans[pmap[a]].rx = "dropped"
    /\ \E d \in Alive : disp[d].pc \in {"recv", "route"}
    /\ ~sockFailed
\* ... and the dispatcher holds a datagram from that address.
LastDroppedRouting ==
    /\ LastDropped
    /\ \E d \in Alive : disp[d].pc = "route" /\ pmap[disp[d].dg.src] # 0
\* The map is empty, the dispatcher has ended and the handle is None.
Stopped == Registered(pmap) = {} /\ Alive = {} /\ recv_task = 0

\* C11 as claimed: after the Receiver of the last registered destination is
\* dropped the dispatcher eventually removes the registration, ends and clears
\* the handle (unless pinger() is called again or the socket fails in the
\* meantime; a behaviour in which the socket has yielded all MaxDgrams
\* datagrams is not held against the claim).
C11_DroppedLastStops ==
    \A n \in 0..MaxPingers :
        (LastDropped /\ Len(chans) = n)
            ~> (Stopped \/ Len(chans) > n \/ sockFailed \/ ndgram >= MaxDgrams)

\* C11 as amended: ... once the dispatcher has a datagram from that
\* destination to deliver, it removes the registration, ends and clears the
\* handle (unless pinger() is called again or the socket fails in the
\* meantime).
C11_DroppedLastStopsOnDelivery ==
    \A n \in 0..MaxPingers :
        (LastDroppedRouting /\ Len(chans) = n)
            ~> (Stopped \/ Len(chans) > n \/ sockFailed)

C11_Witness ==
    /\ Stopped
    /\ ~sockFailed
    /\ \E c \in 1..Len(chans) : chans[c].rx = "dropped"
    /\ \E d \in 1..Len(disp) : disp[d].pc = "dead"

\* The channels whose queue has grown in this step, and the dispatchers that
\* have finished routing the datagram they held.
Grown == {c \in 1..Len(chans) : Len(chans'[c].q) > Len(chans[c].q)}
Routed == {d \in 1..Len(disp) : disp[d].pc = "route" /\ disp'[d].pc # "route"}

\* C12: every queued message came from the address its channel was made for
\* and no datagram is in two channels; a step delivers at most one datagram,
\* to the channel registered under its source; a datagram whose source is not
\* registered changes neither a channel nor the map.
C12_Step ==
    /\ Grown # {} =>
           \E d \in Routed : \E c \in 1..Len(chans) :
               /\ Grown = {c}
               /\ c = pmap[disp[d].dg.src]
               /\ chans'[c].q = Append(chans[c].q, disp[d].dg)
    /\ \A d \in Routed :
           pmap[disp[d].dg.src] = 0 => UNCHANGED <<pmap, chans>>
C12_State ==
    /\ \A c \in 1..Len(chans) : \A i \in 1..Len(chans[c].q) :
           chans[c].q[i].src = chans[c].addr
    /\ \A c1, c2 \in 1..Len(chans) :
           \A i \in 1..Len(chans[c1].q), j \in 1..Len(chans[c2].q) :
               chans[c1].q[i].sn = chans[c2].q[j].sn => c1 = c2
C12_RoutesBySource == []C12_State /\ [][C12_Step]_vars

C12_Witness ==
    /\ \E c1, c2 \in 1..Len(chans) :
           /\ chans[c1].addr # chans[c2].addr
           /\ chans[c1].q # <<>> /\ chans[c2].q # <<>>
           /\ ndgram > Len(chans[c1].q) + Len(chans[c2].q)
    /\ \A d \in 1..Len(disp) : disp[d].pc # "route"

\* C13: an address is registered to one channel, the newest made for it;
\* pinger(addr) leaves addr registered to the channel it has just made, and
\* only the channel currently registered for its address receives datagrams.
C13_Step ==
    /\ Len(chans') > Len(chans) =>
           pmap'[chans'[Len(chans')].addr] = Len(chans')
    /\ \A c \in Grown : pmap[chans[c].addr] = c
C13_State ==
    \A a \in Addrs :
        pmap[a] # 0 =>
            /\ pmap[a] \in 1..Len(chans)
            /\ chans[pmap[a]].addr = a
            /\ \A c \in 1..Len(chans) : chans[c].addr = a => c <= pmap[a]
C13_ReplacesRegistration == []C13_State /\ [][C13_Step]_vars

C13_Witness ==
    \E c1, c2 \in 1..Len(chans) :
        /\ c1 < c2
        /\ chans[c1].addr = chans[c2].addr
        /\ pmap[chans[c2].addr] = c2
        /\ chans[c1].q # <<>> /\ chans[c2].q # <<>>
        /\ chans[c1].rx = "alive"

\* The channels a message has been taken from in this step.
Consumed ==
    {c \in 1..Len(chans) :
        chans'[c].rx = "alive" /\ Len(chans'[c].q) < Len(chans[c].q)}

\* C14: a channel holds its datagrams in the order the dispatcher received
\* them (sn is the position in the socket's receive order), none twice, and
\* its Pinger takes them from the front: what it takes was received before
\* everything still queued.
C14_Step ==
    \A c \in Consumed :
        /\ chans'[c].q = Tail(chans[c].q)
        /\ \A i \in 1..Len(chans'[c].q) : chans[c].q[1].sn < chans'[c].q[i].sn
C14_State ==
    \A c \in 1..Len(chans) : \A i, j \in 1..Len(chans[c].q) :
        i < j => chans[c].q[i].sn < chans[c].q[j].sn
C14_ReceiveOrderKept == []C14_State /\ [][C14_Step]_vars

C14_Witness ==
    \E c \in 1..Len(chans) :
        /\ chans[c].ret /\ chans[c].rx = "alive"
        /\ Len(chans[c].q) = 2

\* The dispatchers whose delivery attempt fails in this step: the source of
\* the datagram they hold is registered and try_send returns Err.
Failing ==
    {d \in Routed :
        /\ pmap[disp[d].dg.src] # 0
        /\ TrySendFails(chans[pmap[disp[d].dg.src]])}

\* C15: no channel holds more than its capacity; a dispatcher holding a
\* datagram can always take its routing step; a delivery attempt on a full or
\* closed channel removes the registration and queues nothing.
C15_Step ==
    \A d \in Failing :
        /\ pmap'[disp[d].dg.src] = 0
        /\ UNCHANGED chans
C15_State ==
    /\ \A c \in 1..Len(chans) : Len(chans[c].q) <= ChanCap
    /\ \A d \in 1..Len(disp) : disp[d].pc = "route" => ENABLED DispRoute(d)
C15_BoundedNonBlocking == []C15_State /\ [][C15_Step]_vars

C15_Witness ==
    \E c \in 1..Len(chans) :
        /\ chans[c].rx = "alive"
        /\ Len(chans[c].q) = ChanCap
        /\ pmap[chans[c].addr] = 0
        /\ ndgram > ChanCap

\* The channels whose Receiver is dropped in this step.
Dropped ==
    {c \in 1..Len(chans) : chans[c].rx = "alive" /\ chans'[c].rx = "dropped"}

\* C16: a failed delivery to one destination changes no other destination's
\* registration and no channel, and while another registration remains the
\* dispatcher goes back to receiving with its handle in place; dropping one
\* Pinger changes no other channel, no registration and no dispatcher.
C16_FailureIsLocal ==
    [][ /\ \A d \in Failing :
               /\ \A b \in Addrs \ {disp[d].dg.src} : pmap'[b] = pmap[b]
               /\ UNCHANGED <<chans, recv_task>>
               /\ Registered(pmap') # {} => disp'[d].pc = "recv"
        /\ \A c \in Dropped :
               /\ \A o \in 1..Len(chans) : o # c => chans'[o] = chans[o]
               /\ UNCHANGED <<pmap, recv_task, disp>>
      ]_vars

C16_Witness ==
    \E c1, c2 \in 1..Len(chans) :
        /\ chans[c1].addr # chans[c2].addr
        /\ chans[c1].rx = "dropped" /\ pmap[chans[c1].addr] = 0
        /\ pmap[chans[c2].addr] = c2
        /\ chans[c2].q # <<>>
        /\ chans[c2].q[Len(chans[c2].q)].sn = ndgram
        /\ \E d \in Alive : disp[d].pc = "recv" /\ recv_task = d

\* C17 as claimed: once recv_from has failed and the dispatcher has ended, no
\* Pinger is left registered with an open channel: each has seen its channel
\* closed (its Sender removed from the map and dropped).
C17_RecvFailureReachesPingers ==
    (sockFailed /\ Alive = {}) =>
        \A a \in Addrs : pmap[a] # 0 => chans[pmap[a]].rx # "alive"

\* The number of calls the limiter lets through back to back before the wait
\* owed reaches the floor: max(1, ceil(limit_pps * minwait_time)).
Burst(lim) ==
    LET b == (lim * MinWait + TicksPerSec - 1) \div TicksPerSec
    IN  IF b < 1 THEN 1 ELSE b

\* C18: of the calls that have left the limiter, any run of them from the
\* i-th to the j-th took at least (j - i + 1 - burst) / limit seconds; so no
\* window of length T has more than burst + limit * T of them, and N calls
\* take at least (N - burst) / limit from the first to the last.
C18_RateCeiling ==
    \A i, j \in 1..Len(passed) :
        i <= j =>
            (j - i + 1 - Burst(limit_pps)) * TicksPerSec
                <= limit_pps * (passed[j] - passed[i])

C18_Witness ==
    \E i, j \in 1..Len(passed) :
        /\ j - i + 1 > Burst(limit_pps)
        /\ Burst(limit_pps) > 1
        /\ (j - i + 1 - Burst(limit_pps)) * TicksPerSec
               = limit_pps * (passed[j] - passed[i])

\* The limiter algorithm as specified, on the state a step starts in: the
\* allowance of the time elapsed since the last timestamp, and the count left
\* once it is taken off.
Allowance ==
    LET e == clock - last[1]
    IN  IF e < 0 THEN 0 ELSE (e * limit_pps) \div TicksPerSec
CountLeft == IF cnt - Allowance < 0 THEN 0 ELSE cnt - Allowance
\* The wait for the count left, CountLeft / limit_pps, is at least the floor.
MustWait == CountLeft > 0 /\ CountLeft * TicksPerSec >= MinWait * limit_pps
\* The senders that run the limiter step, and those that return from its sleep.
Computes == {s \in 1..NSenders : senders[s].pc = "shot" /\ senders'[s].pc # "shot"}
Resumes == {s \in 1..NSenders : senders[s].pc = "sleep" /\ senders'[s].pc # "sleep"}

\* C19: the first call records the time, counts 1 and is let through at once;
\* a later call is suspended exactly when the count left after the allowance
\* is positive and its wait reaches the floor, for at least that wait, and on
\* resuming counts 1 and records the time of resuming; a call that is not
\* suspended (in particular one whose allowance covers the count) is let
\* through in the same step with the count left plus 1 and the time recorded.
C19_StepFollowsAlgorithm ==
    [][ /\ \A s \in Computes :
               IF last = <<>>
               THEN senders'[s].pc = "send" /\ cnt' = 1 /\ last' = <<clock>>
               ELSE IF MustWait
               THEN /\ senders'[s].pc = "sleep"
                    /\ (senders'[s].wake - clock) * limit_pps
                           >= CountLeft * TicksPerSec
                    /\ cnt' = CountLeft /\ last' = last
               ELSE /\ senders'[s].pc = "send"
                    /\ cnt' = CountLeft + 1 /\ last' = <<clock>>
        /\ \A s \in Resumes :
               /\ clock >= senders[s].wake
               /\ senders'[s].pc = "send" /\ cnt' = 1 /\ last' = <<clock>>
      ]_vars

C19_Witness ==
    \E s \in 1..NSenders :
        /\ senders[s].pc = "sleep"
        /\ senders[s].wake > clock
        /\ last # <<>> /\ last[1] < clock
        /\ cnt > 0
        /\ Len(passed) > cnt

\* The senders inside the compute-and-maybe-sleep sequence of the limiter.
InLimiter == {s \in 1..NSenders : senders[s].pc \in {"shot", "sleep"}}

\* C20: the limiter's state is touched only by the holder of its lock: at
\* most one sender is inside the limiter, it is the lock's holder, and a
\* sender that is sending on the socket or idle does not hold the lock. (That
\* packets can reach the socket in another order than they left the limiter
\* is what C20_Witness reaches.)
C20_LimiterUnderLock ==
    /\ Cardinality(InLimiter) <= 1
    /\ \A s \in 1..NSenders : s \in InLimiter <=> lock = s
    /\ lock \in 0..NSenders

C20_Witness ==
    /\ \E i, j \in 1..Len(sent) : i < j /\ sent[i] > sent[j]
    /\ \E s, t \in 1..NSenders :
           /\ senders[s].pc = "sleep" /\ senders[s].wake > clock
           /\ senders[t].pc = "lock"

\* The step in which a call leaves the limiter: its shot() has completed.
Completes == Len(passed') > Len(passed)

\* C21: once the limiter has been used its count is at least 1 and at most
\* max(1, ceil(limit_pps * minwait_time)), after every completed step and
\* while a caller sleeps in it; before the first use it is 0; it is never
\* negative. With the default limit the upper bound is 10.
C21_Step == Completes => (cnt' >= 1 /\ cnt' <= Burst(limit_pps))
C21_State ==
    /\ cnt >= 0
    /\ last = <<>> => cnt = 0
    /\ last # <<>> => (cnt >= 1 /\ cnt <= Burst(limit_pps))
    /\ Burst(DEFAULT_LIMIT_PPS) = 10
C21_CountBounded == []C21_State /\ [][C21_Step]_vars

C21_Witness ==
    /\ InLimiter = {}
    /\ Burst(limit_pps) > 1
    /\ cnt = Burst(limit_pps)
    /\ Len(passed) > Burst(limit_pps) + 1
    /\ last # <<>> /\ last[1] > passed[1]

====
